---- MODULE Spec2Model ----
(***************************************************************************)
(* Model of Leaf.py, a Streamlit page.  Streamlit re-executes the whole    *)
(* script on every user interaction; the framework keeps only the widget   *)
(* values between two runs.  One action of the model is one interaction    *)
(* followed by the complete re-execution of the script.                    *)
(*                                                                         *)
(* Python's None / optional values are sequences of length 0 or 1:         *)
(* None == <<>>, a present value x is <<x>>.  Byte strings and response     *)
(* texts are sequences over small alphabets.                               *)
(***************************************************************************)
EXTENDS Integers, Sequences, FiniteSets, TLC

\* ------------------------------------------------------------------ bounds
MaxLen == 2      \* longest image byte string
MaxText == 2     \* longest response text

SeqsUpTo(S, n) == UNION {[1..k -> S] : k \in 0..n}

ByteVals == {0, 255}
ByteStrings == SeqsUpTo(ByteVals, MaxLen)
TextChars == {"#", "a"}
Texts == SeqsUpTo(TextChars, MaxText)

None == <<>>
Some(x) == <<x>>

\* MIME types the upload widget reports for the extensions of line 69.
WidgetMimes == {"image/jpeg", "image/png"}
\* MIME types a caller of input_image_setup may pass.
AnyMimes == WidgetMimes \cup {""}

\* An uploaded file object: .type, .getvalue(), and whether PIL can open it.
\* An empty file is never a decodable image.
Files(mimes) ==
    {f \in [type : mimes, data : ByteStrings, decodable : BOOLEAN] :
        f.data = <<>> => ~f.decodable}

\* Exceptions (all subclasses of Exception) the service call can raise.
Excs == {"FileNotFoundError", "TimeoutError", "ValueError"}

\* What the external service does when called in a run.
SvcReturns == {[raised |-> "", text |-> t] : t \in Texts}
SvcRaises == {[raised |-> e, text |-> <<>>] : e \in Excs}
NoSvc == [raised |-> "", text |-> <<>>]

InputPrompt == "You are an expert agricultural scientist ..."
SourceOptions == {"Upload an image", "Take a picture"}

VARIABLES
    authKey,               \* st.secrets has an "AUTH key" entry
    googleKey,             \* GOOGLE_API_KEY is available to the genai client
    started,               \* "init", "ok" or "config_error"
    source,                \* value of the radio widget
    uploaderW,             \* value held by the file_uploader widget
    cameraW,               \* value held by the camera_input widget
    uploaded_file,         \* script variable, line 65/69
    captured_image_bytes,  \* script variable, line 66/79
    submit,                \* script variable, line 83
    svc,                   \* behaviour of the external service in this run
    page,                  \* what the last run rendered
    run,                   \* what the last run did
    nUp, nCap,             \* arguments of a direct call
    nRes,                  \* result of input_image_setup(nUp, nCap)
    nTry                   \* result of the try block on (nUp, nCap)

envVars == <<authKey, googleKey>>
pageVars == <<started, source, uploaderW, cameraW, uploaded_file,
              captured_image_bytes, submit, svc, page, run>>
callVars == <<nUp, nCap, nRes, nTry>>
vars == <<envVars, pageVars, callVars>>

\* ------------------------------------------------------- lines 29-54
input_image_setup_capture_first(uploaded, captured) ==
    IF captured # None
    THEN [raised |-> "",
          value |-> <<[mime_type |-> "image/jpeg", data |-> captured[1]]>>]
    ELSE IF uploaded # None
    THEN [raised |-> "",
          value |-> <<[mime_type |-> uploaded[1].type,
                       data |-> uploaded[1].data]>>]
    ELSE [raised |-> "FileNotFoundError", value |-> <<>>]

input_image_setup_png(uploaded, captured) ==
    IF uploaded # None
    THEN [raised |-> "",
          value |-> <<[mime_type |-> uploaded[1].type,
                       data |-> uploaded[1].data]>>]
    ELSE IF captured # None
    THEN [raised |-> "",
          value |-> <<[mime_type |-> "image/png", data |-> captured[1]]>>]
    ELSE [raised |-> "FileNotFoundError", value |-> <<>>]

input_image_setup_no_raise(uploaded, captured) ==
    IF uploaded # None
    THEN [raised |-> "",
          value |-> <<[mime_type |-> uploaded[1].type,
                       data |-> uploaded[1].data]>>]
    ELSE IF captured # None
    THEN [raised |-> "",
          value |-> <<[mime_type |-> "image/jpeg", data |-> captured[1]]>>]
    ELSE [raised |-> "", value |-> <<[mime_type |-> "", data |-> <<>>]>>]

input_image_setup(uploaded, captured) ==
    IF uploaded # None
    THEN [raised |-> "",
          value |-> <<[mime_type |-> uploaded[1].type,
                       data |-> uploaded[1].data]>>]
    ELSE IF captured # None
    THEN [raised |-> "",
          value |-> <<[mime_type |-> "image/jpeg", data |-> captured[1]]>>]
    ELSE [raised |-> "FileNotFoundError", value |-> <<>>]

\* ------------------------------------------------------- lines 19-27
\* One generate_content call with [prompt, image_parts[0]]; the result is
\* response.text, or the exception the call raised.
get_gemini_response_truncating(input_prompt, image_parts, s) ==
    [raised |-> s.raised,
     value |-> IF s.raised = ""
               THEN Some([i \in 1..(IF Len(s.text) > 1 THEN 1 ELSE Len(s.text))
                            |-> s.text[i]])
               ELSE None,
     calls |-> 1,
     sent |-> <<[prompt |-> input_prompt, image |-> image_parts[1]]>>]

get_gemini_response(input_prompt, image_parts, s) ==
    [raised |-> s.raised,
     value |-> IF s.raised = "" THEN Some(s.text) ELSE None,
     calls |-> 1,
     sent |-> <<[prompt |-> input_prompt, image |-> image_parts[1]]>>]

\* ------------------------------------------------------- lines 124-130
FileErrorMsg == "File Error"
UnexpectedMsg == "An unexpected error occurred during analysis"

ExceptHandlers_file_only(exc) ==
    IF exc = "FileNotFoundError" THEN [error |-> FileErrorMsg, escaped |-> FALSE]
    ELSE [error |-> "", escaped |-> TRUE]

ExceptHandlers(exc) ==
    IF exc = "FileNotFoundError" THEN [error |-> FileErrorMsg, escaped |-> FALSE]
    ELSE IF exc \in Excs THEN [error |-> UnexpectedMsg, escaped |-> FALSE]
    ELSE [error |-> "", escaped |-> TRUE]

\* ------------------------------------------------------- lines 90-130
Outcome(w, h, m, e, c, n, snt, esc) ==
    [warning |-> w, heading |-> h, markdown |-> m, error |-> e,
     calls |-> c, normCalls |-> n, sent |-> snt, escaped |-> esc]

NoOutcome == Outcome(FALSE, FALSE, None, "", 0, 0, <<>>, FALSE)

TryBlock_heading_first(uploaded, captured, s) ==
    LET n == input_image_setup(uploaded, captured) IN
    IF n.raised # ""
    THEN LET h == ExceptHandlers(n.raised) IN
         Outcome(FALSE, TRUE, None, h.error, 0, 1, <<>>, h.escaped)
    ELSE LET g == get_gemini_response(InputPrompt, n.value, s) IN
         IF g.raised # ""
         THEN LET h == ExceptHandlers(g.raised) IN
              Outcome(FALSE, TRUE, None, h.error, g.calls, 1, g.sent, h.escaped)
         ELSE Outcome(FALSE, TRUE, g.value, "", g.calls, 1, g.sent, FALSE)

TryBlock(uploaded, captured, s) ==
    LET n == input_image_setup(uploaded, captured) IN
    IF n.raised # ""
    THEN LET h == ExceptHandlers(n.raised) IN
         Outcome(FALSE, FALSE, None, h.error, 0, 1, <<>>, h.escaped)
    ELSE LET g == get_gemini_response(InputPrompt, n.value, s) IN
         IF g.raised # ""
         THEN LET h == ExceptHandlers(g.raised) IN
              Outcome(FALSE, FALSE, None, h.error, g.calls, 1, g.sent, h.escaped)
         ELSE Outcome(FALSE, TRUE, g.value, "", g.calls, 1, g.sent, FALSE)

\* ------------------------------------------------------- lines 86-130
ProcessingLogic_unguarded(clicked, uploaded, captured, s) ==
    IF ~clicked THEN NoOutcome
    ELSE TryBlock(uploaded, captured, s)

ProcessingLogic(clicked, uploaded, captured, s) ==
    IF ~clicked THEN NoOutcome
    ELSE IF uploaded = None /\ captured = None
    THEN Outcome(TRUE, FALSE, None, "", 0, 0, <<>>, FALSE)
    ELSE TryBlock(uploaded, captured, s)

\* ------------------------------------------------------- lines 63-81
ImageInputSection_read_both(src, upW, camW) ==
    [uploaded_file |-> upW,
     captured_image_bytes |-> camW,
     previewError |-> upW # None /\ ~upW[1].decodable]

ImageInputSection(src, upW, camW) ==
    IF src = "Upload an image"
    THEN [uploaded_file |-> upW,
          captured_image_bytes |-> None,
          previewError |-> upW # None /\ ~upW[1].decodable]
    ELSE [uploaded_file |-> None,
          captured_image_bytes |-> camW,
          previewError |-> FALSE]

\* ------------------------------------------------------- lines 56-130
\* One complete execution of the script body after startup succeeded.
Rerun(src, upW, camW, clicked, s) ==
    LET inp == ImageInputSection(src, upW, camW)
        out == ProcessingLogic(clicked, inp.uploaded_file,
                               inp.captured_image_bytes, s)
    IN /\ source' = src
       /\ uploaderW' = upW
       /\ cameraW' = camW
       /\ uploaded_file' = inp.uploaded_file
       /\ captured_image_bytes' = inp.captured_image_bytes
       /\ submit' = clicked
       /\ svc' = s
       /\ page' = [previewError |-> inp.previewError,
                   warning |-> out.warning,
                   heading |-> out.heading,
                   markdown |-> out.markdown,
                   error |-> out.error]
       /\ run' = [calls |-> out.calls, normCalls |-> out.normCalls,
                  sent |-> out.sent, escaped |-> out.escaped]

BlankPage == [previewError |-> FALSE, warning |-> FALSE, heading |-> FALSE,
              markdown |-> None, error |-> ""]
NoRun == [calls |-> 0, normCalls |-> 0, sent |-> <<>>, escaped |-> FALSE]

PageInit ==
    /\ started = "init"
    /\ source = "Upload an image"
    /\ uploaderW = None
    /\ cameraW = None
    /\ uploaded_file = None
    /\ captured_image_bytes = None
    /\ submit = FALSE
    /\ svc = NoSvc
    /\ page = BlankPage
    /\ run = NoRun

CallInit ==
    /\ nUp = None
    /\ nCap = None
    /\ nRes = None
    /\ nTry = None

Init ==
    /\ authKey \in BOOLEAN
    /\ googleKey \in BOOLEAN
    /\ PageInit
    /\ CallInit

\* ------------------------------------------------------- lines 8-17
\* load_dotenv() never fails; st.secrets["AUTH key"] raises when the entry
\* is missing.  genai is never configured here: it looks the API key up when
\* the first request is made.
Startup ==
    /\ started = "init"
    /\ IF authKey
       THEN /\ started' = "ok"
            /\ Rerun("Upload an image", None, None, FALSE, NoSvc)
       ELSE /\ started' = "config_error"
            /\ UNCHANGED <<source, uploaderW, cameraW, uploaded_file,
                           captured_image_bytes, submit, svc, page, run>>
    /\ UNCHANGED <<envVars, callVars>>

\* The framework may keep or drop the value of a widget that is not drawn.
Hidden(w) == {w, None}

SelectSource ==
    /\ started = "ok"
    /\ \E s \in SourceOptions \ {source} :
         \E upW \in (IF s = "Upload an image" THEN {uploaderW} ELSE Hidden(uploaderW)) :
           \E camW \in (IF s = "Take a picture" THEN {cameraW} ELSE Hidden(cameraW)) :
             Rerun(s, upW, camW, FALSE, NoSvc)
    /\ UNCHANGED <<started, envVars, callVars>>

UploadFile ==
    /\ started = "ok"
    /\ source = "Upload an image"
    /\ \E f \in Files(WidgetMimes) :
         Rerun(source, Some(f), cameraW, FALSE, NoSvc)
    /\ UNCHANGED <<started, envVars, callVars>>

RemoveFile ==
    /\ started = "ok"
    /\ source = "Upload an image"
    /\ uploaderW # None
    /\ Rerun(source, None, cameraW, FALSE, NoSvc)
    /\ UNCHANGED <<started, envVars, callVars>>

TakePicture ==
    /\ started = "ok"
    /\ source = "Take a picture"
    /\ \E b \in ByteStrings \ {<<>>} :
         Rerun(source, uploaderW, Some(b), FALSE, NoSvc)
    /\ UNCHANGED <<started, envVars, callVars>>

ClearPhoto ==
    /\ started = "ok"
    /\ source = "Take a picture"
    /\ cameraW # None
    /\ Rerun(source, uploaderW, None, FALSE, NoSvc)
    /\ UNCHANGED <<started, envVars, callVars>>

\* Without an API key every request is rejected.
ClickSubmit ==
    /\ started = "ok"
    /\ \E s \in (IF googleKey THEN SvcReturns \cup SvcRaises ELSE SvcRaises) :
         Rerun(source, uploaderW, cameraW, TRUE, s)
    /\ UNCHANGED <<started, envVars, callVars>>

Next ==
    \/ Startup
    \/ SelectSource
    \/ UploadFile
    \/ RemoveFile
    \/ TakePicture
    \/ ClearPhoto
    \/ ClickSubmit

Spec == Init /\ [][Next]_vars

\* ---------------------------------------------- direct calls of the functions
InitCall ==
    /\ authKey = TRUE
    /\ googleKey = TRUE
    /\ PageInit
    /\ nUp \in {None} \cup {Some(f) : f \in Files(AnyMimes)}
    /\ nCap \in {None} \cup {Some(b) : b \in ByteStrings}
    /\ nRes = None
    /\ nTry = None

CallNormalize ==
    /\ nRes = None
    /\ nRes' = Some(input_image_setup(nUp, nCap))
    /\ UNCHANGED <<envVars, pageVars, nUp, nCap, nTry>>

CallTryBlock ==
    /\ nTry = None
    /\ \E s \in SvcReturns \cup SvcRaises :
         nTry' = Some(TryBlock(nUp, nCap, s))
    /\ UNCHANGED <<envVars, pageVars, nUp, nCap, nRes>>

NextCall ==
    \/ CallNormalize
    \/ CallTryBlock

SpecCall == InitCall /\ [][NextCall]_vars

\* ========================================================== properties
ImagePresent == uploaded_file # None \/ captured_image_bytes # None
ReportShown == page.heading \/ page.markdown # None

\* C1: a submission with an image present whose service call raises ends
\* with an error message, exactly one service call, and no escaped exception.
C1_ServiceFailureReported ==
    (submit /\ ImagePresent /\ svc.raised # "") =>
        /\ page.error # ""
        /\ run.calls = 1
        /\ ~run.escaped

C1_Witness ==
    /\ submit /\ ImagePresent
    /\ svc.raised = "TimeoutError"
    /\ page.error = UnexpectedMsg
    /\ run.calls = 1

\* C2: a submission with neither an uploaded file nor captured bytes shows
\* the warning, makes no service call and does not call the normalizer.
C2_NoImageWarning ==
    (submit /\ ~ImagePresent) =>
        /\ page.warning
        /\ run.calls = 0
        /\ run.normCalls = 0

C2_Witness ==
    /\ submit /\ ~ImagePresent
    /\ page.warning
    /\ svc.raised = "" /\ Len(svc.text) > 0

\* C3 as stated: no page contains both report output (heading or response
\* text) and an error message of any kind.
C3_NeverReportAndAnyError ==
    ~(ReportShown /\ (page.error # "" \/ page.previewError))

\* C3 amended: the submission renders either the whole report (heading and
\* response text) or a submission error message, never both and never half
\* a report; only the upload preview's own error can accompany a report.
C3_ReportXorSubmitError ==
    /\ ~(ReportShown /\ page.error # "")
    /\ page.heading <=> page.markdown # None

C3_Witness ==
    /\ submit
    /\ page.heading /\ page.markdown # None
    /\ page.previewError
    /\ page.error = ""

\* C4: when the service call succeeds with text S, the text handed to the
\* renderer is exactly S.
C4_ResponseVerbatim ==
    (submit /\ ImagePresent /\ svc.raised = "") =>
        page.markdown = Some(svc.text)

C4_Witness ==
    /\ submit /\ ImagePresent
    /\ svc.raised = "" /\ Len(svc.text) = MaxText
    /\ page.markdown = Some(svc.text)

\* C5: for an uploaded file with type M and bytes B, with or without captured
\* bytes, input_image_setup returns exactly one record with mime_type M and
\* data B.
C5_UploadVerbatim ==
    (nRes # None /\ nUp # None) =>
        /\ nRes[1].raised = ""
        /\ nRes[1].value = <<[mime_type |-> nUp[1].type, data |-> nUp[1].data]>>

C5_Witness ==
    /\ nRes # None /\ nUp # None /\ nCap # None
    /\ nUp[1].type = "image/png" /\ Len(nUp[1].data) = MaxLen
    /\ nCap[1] # nUp[1].data
    /\ Len(nRes[1].value) = 1

\* C6: for captured bytes B with no uploaded file, input_image_setup returns
\* a record with mime_type "image/jpeg" and data B, whatever B contains.
C6_CaptureIsJpeg ==
    (nRes # None /\ nUp = None /\ nCap # None) =>
        /\ nRes[1].raised = ""
        /\ nRes[1].value = <<[mime_type |-> "image/jpeg", data |-> nCap[1]]>>

C6_Witness ==
    /\ nRes # None /\ nUp = None /\ nCap # None
    /\ Len(nCap[1]) = MaxLen
    /\ nRes[1].value[1].mime_type = "image/jpeg"

\* C7: with neither source, input_image_setup raises FileNotFoundError and
\* returns no record; inside the try block the exception is caught and
\* reported as an error message, before any service call.
C7_MissingInputRaises ==
    (nUp = None /\ nCap = None) =>
        /\ nRes # None =>
             /\ nRes[1].raised = "FileNotFoundError"
             /\ nRes[1].value = <<>>
        /\ nTry # None =>
             /\ nTry[1].error = FileErrorMsg
             /\ ~nTry[1].escaped
             /\ ~nTry[1].heading /\ nTry[1].markdown = None
             /\ nTry[1].calls = 0

C7_Witness ==
    /\ nUp = None /\ nCap = None
    /\ nRes # None /\ nRes[1].raised = "FileNotFoundError"
    /\ nTry # None /\ nTry[1].error = FileErrorMsg

\* C8: every record sent to the external service has a non-empty mime type
\* and non-empty bytes.
C8_SentRecordPopulated ==
    \A i \in 1..Len(run.sent) :
        /\ run.sent[i].image.mime_type # ""
        /\ run.sent[i].image.data # <<>>

\* C9: with the service credential absent the process fails at startup, and
\* no run reaches the service call.
C9_FailFastOnMissingCredential ==
    (~googleKey /\ started # "init") =>
        /\ started = "config_error"
        /\ run.calls = 0

\* C10: whenever the submit logic runs, at most one of uploaded_file and
\* captured_image_bytes is set.
C10_SourcesExclusive ==
    ~(uploaded_file # None /\ captured_image_bytes # None)

C10_Witness ==
    /\ submit
    /\ source = "Take a picture"
    /\ captured_image_bytes # None /\ uploaded_file = None
    /\ run.normCalls = 1
====
